---- MODULE Spec2Model ----
(***************************************************************************)
(* A model of the HTTP request parser of rust-http.                        *)
(*                                                                         *)
(* A byte is a one-character string ("G", " ", "\r", ...); the byte 0xFF,  *)
(* which no UTF-8 text contains, is written XFF.  Byte strings (Vec<u8>,   *)
(* &[u8], String, &str) are sequences of bytes.                            *)
(*                                                                         *)
(* The repository holds the parser twice: src/main.rs (the binary) and     *)
(* src/http/ (the same code split into modules, with a larger method       *)
(* vocabulary and an UnknownMethodError that carries the token).  The      *)
(* variable build says which of the two a behaviour runs.                  *)
(***************************************************************************)
EXTENDS Integers, Sequences, FiniteSets, TLC

VARIABLES
    build,         \* "main" (src/main.rs) or "http" (src/http/)
    stream,        \* every byte the peer has sent on the connection so far
    closed,        \* the peer has closed its sending side: reads past the end see EOF
    pos,           \* how many bytes of stream the BufReader has handed out
    pc,            \* where the code is
    sequence,      \* the delimiter the scanner looks for
    scanned,       \* the scanner's last result (scanner specification only)
    request_line,  \* the parsed HttpRequestLine, or NoRequestLine
    headers,       \* HttpRequest::from_stream's local headers: Vec<(String, String)>
    error,         \* the Err value the parser returned, or NoError
    returned,      \* the HttpRequest that from_stream returned, or NoRequest
    sent,          \* how many header-phase chunks the peer has sent
    reset,         \* the connection is broken: a read that needs more bytes fails
    response,      \* the HttpResponse being built, or NoResponse
    written,       \* the bytes written to the connection (or serialized)
    routed,        \* how many times handle_request has been called
    calls,         \* how many builder calls a response has had (builder specification)
    conns,         \* the connections of the server, each with its thread
    listener       \* how many errors the accept loop has printed

\* what the parser leaves alone
handlerVars == <<reset, response, written, routed, calls>>

\* what one connection on its own leaves alone
serverVars == <<conns, listener>>

vars == <<build, stream, closed, pos, pc, sequence, scanned, request_line, headers,
          error, returned, sent, handlerVars, serverVars>>

----------------------------------------------------------------------------
(* Bounds of the model.                                                    *)

\* longest byte stream given to the scanner on its own
MaxScanLen == 7
\* longest delimiter given to the scanner on its own
MaxDelimLen == 3
\* most header-phase lines the peer sends after the request line
MaxHeaderLines == 3

----------------------------------------------------------------------------
(* Bytes and byte strings.                                                 *)

XFF == "0xFF"
CR == "\r"
LF == "\n"
SP == " "
CRLF == <<CR, LF>>

\* the empty byte string
Empty == <<>>

\* s without its first n bytes
Drop(s, n) == SubSeq(s, n + 1, Len(s))

\* s is t followed by something
StartsWith(s, t) == Len(s) >= Len(t) /\ SubSeq(s, 1, Len(t)) = t

\* the sequences over S of length lo..hi
SeqsOf(S, lo, hi) == UNION {[1..n -> S] : n \in lo..hi}

----------------------------------------------------------------------------
(* parse_stream_untill_sequence: the byte-delimiter scanner.               *)

\* The loop body with a window that is not slid: when the byte does not
\* continue the delimiter the window is cleared, but for that byte if the
\* delimiter starts with it.
ScanByteResetting(buffer, sequence_buffer, byte, seq) ==
    LET pushed == Append(sequence_buffer, byte)
        window == IF StartsWith(seq, pushed) THEN pushed
                  ELSE IF StartsWith(seq, <<byte>>) THEN <<byte>> ELSE <<>>
        buf    == Append(buffer, byte)
    IN  IF window = seq
        THEN [done |-> TRUE, buffer |-> SubSeq(buf, 1, Len(buf) - Len(seq)),
              sequence_buffer |-> window]
        ELSE [done |-> FALSE, buffer |-> buf, sequence_buffer |-> window]

\* One turn of the loop over stream.bytes(): push the byte on both buffers,
\* evict the window's oldest byte when it has outgrown the delimiter, and on a
\* match cut the delimiter off the accumulated bytes.
ScanByte(buffer, sequence_buffer, byte, seq) ==
    LET pushed == Append(sequence_buffer, byte)
        window == IF Len(pushed) > Len(seq) THEN Tail(pushed) ELSE pushed
        buf    == Append(buffer, byte)
    IN  IF window = seq
        THEN [done |-> TRUE, buffer |-> SubSeq(buf, 1, Len(buf) - Len(seq)),
              sequence_buffer |-> window]
        ELSE [done |-> FALSE, buffer |-> buf, sequence_buffer |-> window]

\* The source has no byte left and the peer has closed: Ok with what was read.
ScanAtEofLenient(buffer, at) == [kind |-> "Ok", buffer |-> buffer, pos |-> at]

\* The iterator ended without a match: Err(Error::new(ErrorKind::Other,
\* "No sequence found in stream")).
ScanAtEof(buffer, at) == [kind |-> "Err", buffer |-> Empty, pos |-> at]

RECURSIVE ScanLoop(_, _, _, _, _, _)
\* The loop from byte number i on.  kind is "Ok" (buffer holds the bytes before
\* the delimiter), "Err" (end of stream first) or "Blocked" (the source has no
\* byte yet and the peer has not closed: the read does not return); pos is the
\* number of bytes consumed from the source.
ScanLoop(bytes, i, eof, seq, buffer, sequence_buffer) ==
    IF i > Len(bytes)
    THEN IF eof THEN ScanAtEof(buffer, Len(bytes))
         ELSE [kind |-> "Blocked", buffer |-> Empty, pos |-> Len(bytes)]
    ELSE LET s == ScanByte(buffer, sequence_buffer, bytes[i], seq)
         IN  IF s.done THEN [kind |-> "Ok", buffer |-> s.buffer, pos |-> i]
             ELSE ScanLoop(bytes, i + 1, eof, seq, s.buffer, s.sequence_buffer)

\* parse_stream_untill_sequence(stream, sequence) on a source that has handed
\* out `from` bytes of `bytes`.
parse_stream_untill_sequence(bytes, from, eof, seq) ==
    ScanLoop(bytes, from + 1, eof, seq, <<>>, <<>>)

----------------------------------------------------------------------------
(* Values that stand for "none".                                           *)

NoScan == [kind |-> "None", buffer |-> Empty, from |-> 0, pos |-> 0]
NoError == [type |-> "None", has_token |-> FALSE, token |-> Empty]
NoRequestLine == [method |-> "None", target |-> Empty, version |-> "None"]
NoRequest == [request_line |-> NoRequestLine, headers |-> <<>>, body |-> "Unset"]

NoResponse ==
    [status_line |-> [version |-> "None", status |-> "None"], headers |-> <<>>,
     content |-> Empty]
----------------------------------------------------------------------------
(* Text helpers of the standard library, as the parser uses them.          *)

\* char::is_whitespace, on the bytes of the model
Whitespace == {SP, "\t", CR, LF}

\* the bytes are UTF-8 text (String::from_utf8 and read_to_string accept them)
IsUtf8(bytes) == \A i \in 1..Len(bytes) : bytes[i] # XFF

RECURSIVE SplitFrom(_, _, _)
\* The pieces of s between the occurrences of pat, found left to right;
\* cur is the piece being collected.
SplitFrom(s, pat, cur) ==
    IF s = <<>> THEN <<cur>>
    ELSE IF StartsWith(s, pat)
         THEN <<cur>> \o SplitFrom(Drop(s, Len(pat)), pat, <<>>)
         ELSE SplitFrom(Tail(s), pat, Append(cur, Head(s)))

\* buffer.split(|byte| byte == &b' '): the words of the request line
slice_split(buffer, byte) == SplitFrom(buffer, <<byte>>, <<>>)

\* header_str.split(": "): the parts of a header line
str_split(s, pat) == SplitFrom(s, pat, <<>>)

RECURSIVE trim_start(_)
trim_start(s) ==
    IF s # <<>> /\ Head(s) \in Whitespace THEN trim_start(Tail(s)) ELSE s

RECURSIVE trim_end(_)
trim_end(s) ==
    IF s # <<>> /\ s[Len(s)] \in Whitespace
    THEN trim_end(SubSeq(s, 1, Len(s) - 1))
    ELSE s

\* str::trim
trim(s) == trim_end(trim_start(s))

----------------------------------------------------------------------------
(* Tokens.                                                                 *)

GET == <<"G", "E", "T">>
POST == <<"P", "O", "S", "T">>
DELETE == <<"D", "E", "L", "E", "T", "E">>
PATCH == <<"P", "A", "T", "C", "H">>
PUT == <<"P", "U", "T">>

HTTP_ == <<"H", "T", "T", "P", "/">>
HTTP_1_0 == HTTP_ \o <<"1", ".", "0">>
HTTP_1_1 == HTTP_ \o <<"1", ".", "1">>
HTTP_2_0 == HTTP_ \o <<"2", ".", "0">>

----------------------------------------------------------------------------
(* Errors.                                                                 *)

\* HttpError::UnknownMethodError: a unit variant in src/main.rs,
\* UnknownMethodError(String) in src/http/errors.rs
UnknownMethodError(b, str) ==
    IF b = "main"
    THEN [type |-> "UnknownMethodError", has_token |-> FALSE, token |-> Empty]
    ELSE [type |-> "UnknownMethodError", has_token |-> TRUE, token |-> str]

\* HttpError::UnknownHttpVersion(String)
UnknownHttpVersion(str) ==
    [type |-> "UnknownHttpVersion", has_token |-> TRUE, token |-> str]

\* std::io::Error of ErrorKind::Other, "No sequence found in stream"
NoSequenceFound == [type |-> "IoOther", has_token |-> FALSE, token |-> Empty]

\* std::io::Error of ErrorKind::InvalidData, from read_to_string
InvalidData == [type |-> "IoInvalidData", has_token |-> FALSE, token |-> Empty]

\* std::string::FromUtf8Error, from String::from_utf8
FromUtf8Error == [type |-> "FromUtf8Error", has_token |-> FALSE, token |-> Empty]

Ok(v) == [kind |-> "Ok", value |-> v, error |-> NoError]
Err(e) == [kind |-> "Err", value |-> "None", error |-> e]

----------------------------------------------------------------------------
(* HttpRequestMethod::from_str and HttpVersion::from_str.                  *)

\* from_str with two arms exchanged: "PATCH" gives Put and "PUT" gives Patch
HttpRequestMethod_from_str_swapped(b, str) ==
    IF b = "main"
    THEN IF str = GET THEN Ok("Get") ELSE Err(UnknownMethodError(b, str))
    ELSE CASE str = GET -> Ok("Get")
           [] str = POST -> Ok("Post")
           [] str = DELETE -> Ok("Delete")
           [] str = PATCH -> Ok("Put")
           [] str = PUT -> Ok("Patch")
           [] OTHER -> Err(UnknownMethodError(b, str))

\* HttpRequestMethod::from_str: src/main.rs knows GET alone
HttpRequestMethod_from_str(b, str) ==
    IF b = "main"
    THEN IF str = GET THEN Ok("Get") ELSE Err(UnknownMethodError(b, str))
    ELSE CASE str = GET -> Ok("Get")
           [] str = POST -> Ok("Post")
           [] str = DELETE -> Ok("Delete")
           [] str = PATCH -> Ok("Patch")
           [] str = PUT -> Ok("Put")
           [] OTHER -> Err(UnknownMethodError(b, str))

\* from_str that takes any other token that starts with "HTTP/" for HTTP/1.1
HttpVersion_from_str_lenient(str) ==
    CASE str = HTTP_1_0 -> Ok("Http1_0")
      [] str = HTTP_1_1 -> Ok("Http1_1")
      [] str = HTTP_2_0 -> Ok("Http2_0")
      [] OTHER -> IF StartsWith(str, HTTP_) THEN Ok("Http1_1")
                  ELSE Err(UnknownHttpVersion(str))

\* HttpVersion::from_str
HttpVersion_from_str(str) ==
    CASE str = HTTP_1_0 -> Ok("Http1_0")
      [] str = HTTP_1_1 -> Ok("Http1_1")
      [] str = HTTP_2_0 -> Ok("Http2_0")
      [] OTHER -> Err(UnknownHttpVersion(str))

----------------------------------------------------------------------------
(* HttpRequestLine::from_stream.                                           *)

\* HttpRequestLine::new
HttpRequestLine_new(version, target, method) ==
    [method |-> method, target |-> target, version |-> version]

\* The outcome of a parsing step: kind is "Ok", "Err" (the function returned
\* Err(error)), "Panic" (an unwrap of None: the thread unwinds) or "Blocked"
\* (the read has not returned); pos is the number of bytes consumed.
Outcome(kind, line, err, at) ==
    [kind |-> kind, line |-> line, error |-> err, pos |-> at]

\* The body of from_stream after the scan has returned buffer: the words are
\* taken and decoded one at a time, then the method and the version are
\* looked up, in that order.
HttpRequestLine_from_buffer(b, buffer, at) ==
    LET words == slice_split(buffer, SP)
    IN  IF ~IsUtf8(words[1]) THEN Outcome("Err", NoRequestLine, InvalidData, at)
        ELSE IF Len(words) < 2 THEN Outcome("Panic", NoRequestLine, NoError, at)
        ELSE IF ~IsUtf8(words[2]) THEN Outcome("Err", NoRequestLine, InvalidData, at)
        ELSE IF Len(words) < 3 THEN Outcome("Panic", NoRequestLine, NoError, at)
        ELSE IF ~IsUtf8(words[3]) THEN Outcome("Err", NoRequestLine, InvalidData, at)
        ELSE LET method == HttpRequestMethod_from_str(b, words[1])
                 version == HttpVersion_from_str(words[3])
             IN  IF method.kind = "Err"
                 THEN Outcome("Err", NoRequestLine, method.error, at)
                 ELSE IF version.kind = "Err"
                 THEN Outcome("Err", NoRequestLine, version.error, at)
                 ELSE Outcome("Ok",
                              HttpRequestLine_new(version.value, words[2], method.value),
                              NoError, at)

\* HttpRequestLine::from_stream on a source that has handed out `from` bytes
HttpRequestLine_from_stream(b, bytes, from, eof) ==
    LET r == parse_stream_untill_sequence(bytes, from, eof, CRLF)
    IN  CASE r.kind = "Blocked" -> Outcome("Blocked", NoRequestLine, NoError, r.pos)
          [] r.kind = "Err" -> Outcome("Err", NoRequestLine, NoSequenceFound, r.pos)
          [] OTHER -> HttpRequestLine_from_buffer(b, r.buffer, r.pos)

\* The first statement of HttpRequest::from_stream:
\*   let request_line = HttpRequestLine::from_stream(stream)?;
ParseRequestLine ==
    /\ pc = "request_line"
    /\ LET r == HttpRequestLine_from_stream(build, stream, pos, closed)
       IN  /\ r.kind # "Blocked"
           /\ pos' = r.pos
           /\ request_line' = r.line
           /\ error' = r.error
           /\ pc' = CASE r.kind = "Ok" -> "first_header"
                      [] r.kind = "Err" -> "failed"
                      [] OTHER -> "panicked"
    /\ UNCHANGED <<build, stream, closed, sequence, scanned, headers, returned, sent, handlerVars, serverVars>>

----------------------------------------------------------------------------
(* HttpRequest::from_stream: the header block.                             *)

COLON_SP == <<":", SP>>

\* What one scanned line makes of itself: kind is "Err" (String::from_utf8
\* failed), "Empty" (nothing is left after trim), "Panic" (split(": ") has no
\* second part to unwrap) or "Header" (name is the first part and value the
\* second part of the split).
HeaderOutcome(kind, name, value, err) ==
    [kind |-> kind, name |-> name, value |-> value, error |-> err]

\* String::from_utf8(..)?, trim, and for a line that is not empty
\* split(": ") with next().unwrap() taken twice.
header_from_line(line) ==
    IF ~IsUtf8(line) THEN HeaderOutcome("Err", Empty, Empty, FromUtf8Error)
    ELSE LET header_str == trim(line)
             parts == str_split(header_str, COLON_SP)
         IN  IF Len(header_str) = 0 THEN HeaderOutcome("Empty", Empty, Empty, NoError)
             ELSE IF Len(parts) < 2 THEN HeaderOutcome("Panic", Empty, Empty, NoError)
             ELSE HeaderOutcome("Header", parts[1], parts[2], NoError)

\* The read of one header line: the scan, then header_from_line on what it
\* returned.  kind is the header's kind, or "Blocked", or "Err" with
\* NoSequenceFound when the scan failed.
read_header(bytes, from, eof) ==
    LET r == parse_stream_untill_sequence(bytes, from, eof, CRLF)
    IN  CASE r.kind = "Blocked" ->
               [pos |-> r.pos, h |-> HeaderOutcome("Blocked", Empty, Empty, NoError)]
          [] r.kind = "Err" ->
               [pos |-> r.pos, h |-> HeaderOutcome("Err", Empty, Empty, NoSequenceFound)]
          [] OTHER -> [pos |-> r.pos, h |-> header_from_line(r.buffer)]

\* headers.push((header_name.to_string(), header_value.to_string()))
push_header(hs, h) == Append(hs, <<h.name, h.value>>)

\* The statements between the request line and the loop: one line is read; a
\* line that is not empty gives a header; the loop is entered either way.
ParseFirstHeader ==
    /\ pc = "first_header"
    /\ LET r == read_header(stream, pos, closed)
       IN  /\ r.h.kind # "Blocked"
           /\ pos' = r.pos
           /\ error' = r.h.error
           /\ headers' = IF r.h.kind = "Header" THEN push_header(headers, r.h)
                         ELSE headers
           /\ pc' = CASE r.h.kind = "Err" -> "failed"
                      [] r.h.kind = "Panic" -> "panicked"
                      [] OTHER -> "headers"
    /\ UNCHANGED <<build, stream, closed, sequence, scanned, request_line, returned,
                   sent, handlerVars, serverVars>>

\* the loop left on a failed read as on an empty line
loop_turn_break_on_err(kind) ==
    CASE kind = "Panic" -> "panicked"
      [] kind \in {"Empty", "Err"} -> "parsed"
      [] OTHER -> "headers"

\* Where one turn of the loop leaves from_stream: ? returns the Err, unwrap
\* panics, an empty line breaks out to Ok(Self {..}), a header goes round.
loop_turn(kind) ==
    CASE kind = "Err" -> "failed"
      [] kind = "Panic" -> "panicked"
      [] kind = "Empty" -> "parsed"
      [] OTHER -> "headers"

\* One turn of the loop: an empty line breaks out of it, and from_stream
\* returns Ok(Self {request_line, headers, body: None}).
ParseNextHeader ==
    /\ pc = "headers"
    /\ LET r == read_header(stream, pos, closed)
       IN  /\ r.h.kind # "Blocked"
           /\ pos' = r.pos
           /\ error' = r.h.error
           /\ headers' = IF r.h.kind = "Header" THEN push_header(headers, r.h)
                         ELSE headers
           /\ pc' = loop_turn(r.h.kind)
           /\ returned' = IF pc' = "parsed"
                          THEN [request_line |-> request_line, headers |-> headers,
                                body |-> "None"]
                          ELSE returned
    /\ UNCHANGED <<build, stream, closed, sequence, scanned, request_line, sent, handlerVars, serverVars>>

----------------------------------------------------------------------------
(* HttpResponse: the response model and its serialization.                 *)

\* the texts of the status line
STATUS_200_OK == <<"2", "0", "0", SP, "O", "K">>
STATUS_404_NOT_FOUND ==
    <<"4", "0", "4", SP, "N", "o", "t", SP, "F", "o", "u", "n", "d">>

\* the header names and the media type write_text uses
CONTENT_TYPE == <<"C", "o", "n", "t", "e", "n", "t", "-", "T", "y", "p", "e">>
CONTENT_LENGTH ==
    <<"C", "o", "n", "t", "e", "n", "t", "-", "L", "e", "n", "g", "t", "h">>
TEXT_PLAIN == <<"t", "e", "x", "t", "/", "p", "l", "a", "i", "n">>

\* enum HttpStatus
HttpStatus == {"Ok", "NotFound"}

\* the character of one decimal digit
DigitChar(d) == <<"0", "1", "2", "3", "4", "5", "6", "7", "8", "9">>[d + 1]

RECURSIVE usize_to_string(_)
\* usize::to_string: the decimal digits of n, most significant first
usize_to_string(n) ==
    IF n < 10 THEN <<DigitChar(n)>>
    ELSE Append(usize_to_string(n \div 10), DigitChar(n % 10))

\* HttpResponseStatusLine::new
HttpResponseStatusLine_new(version, status) ==
    [version |-> version, status |-> status]

\* HttpResponseStatusLine::to_string
HttpResponseStatusLine_to_string(status_line) ==
    (CASE status_line.version = "Http1_0" -> HTTP_1_0
       [] status_line.version = "Http1_1" -> HTTP_1_1
       [] status_line.version = "Http2_0" -> HTTP_2_0)
        \o <<SP>>
        \o (CASE status_line.status = "Ok" -> STATUS_200_OK
              [] status_line.status = "NotFound" -> STATUS_404_NOT_FOUND)

\* HttpResponse::new
HttpResponse_new(version) ==
    [status_line |-> HttpResponseStatusLine_new(version, "Ok"),
     headers |-> <<>>,
     content |-> Empty]

\* HttpResponse::add_header: the pair is pushed, whatever the list holds
add_header(self, header_name, header_value) ==
    [self EXCEPT !.headers = Append(@, <<header_name, header_value>>)]

\* HttpResponse::set_status
set_status(self, status) == [self EXCEPT !.status_line.status = status]

\* HttpResponse::add_content: the content is replaced
add_content(self, content) == [self EXCEPT !.content = content]

\* write_text with the two headers pushed in the other order
write_text_length_first(self, text) ==
    add_content(
        add_header(add_header(self, CONTENT_LENGTH, usize_to_string(Len(text))),
                   CONTENT_TYPE, TEXT_PLAIN),
        text)

\* HttpResponse::write_text; text.len() is the number of bytes of text
write_text(self, text) ==
    add_content(
        add_header(add_header(self, CONTENT_TYPE, TEXT_PLAIN),
                   CONTENT_LENGTH, usize_to_string(Len(text))),
        text)

RECURSIVE headers_to_string(_, _)
\* the for loop of HttpResponse::to_string: "{name}: {value}\r\n" is added
\* to the text for each header in turn
headers_to_string(text, hs) ==
    IF hs = <<>> THEN text
    ELSE headers_to_string(text \o Head(hs)[1] \o <<":", SP>> \o Head(hs)[2] \o CRLF,
                           Tail(hs))

\* to_string with each header put in front of the headers before it
HttpResponse_to_string_reversed(self) ==
    HttpResponseStatusLine_to_string(self.status_line) \o CRLF
        \o headers_to_string(Empty, [i \in 1..Len(self.headers)
                                        |-> self.headers[Len(self.headers) + 1 - i]])
        \o CRLF \o self.content

\* HttpResponse::to_string
HttpResponse_to_string(self) ==
    headers_to_string(HttpResponseStatusLine_to_string(self.status_line) \o CRLF,
                      self.headers)
        \o CRLF \o self.content

----------------------------------------------------------------------------
(* handle_connection and handle_request of src/main.rs.                    *)

\* the targets and the header name that handle_request knows
ROOT_PATH == <<"/">>
USER_AGENT_PATH == <<"/", "u", "s", "e", "r", "-", "a", "g", "e", "n", "t">>
ECHO_PREFIX == <<"/", "e", "c", "h", "o", "/">>
USER_AGENT == <<"U", "s", "e", "r", "-", "A", "g", "e", "n", "t">>

\* std::io::Error from a read on a broken connection (byte? in the scanner)
ConnectionReset == [type |-> "IoConnectionReset", has_token |-> FALSE, token |-> Empty]

RECURSIVE trim_start_matches(_, _)
\* str::trim_start_matches: the prefix is removed as often as it matches
trim_start_matches(s, pat) ==
    IF pat # <<>> /\ StartsWith(s, pat)
    THEN trim_start_matches(Drop(s, Len(pat)), pat)
    ELSE s

\* HttpRequest::get_header: the value of the first header of that name, as
\* an Option
get_header(self, header_name) ==
    LET found == {i \in 1..Len(self.headers) : self.headers[i][1] = header_name}
    IN  IF found = {} THEN [some |-> FALSE, value |-> Empty]
        ELSE [some |-> TRUE,
              value |-> self.headers[CHOOSE i \in found : \A j \in found : i <= j][2]]

\* handle_request with a last arm that leaves the response as it is
handle_request_default_ok(req, res) ==
    LET target == req.request_line.target
    IN  IF target = USER_AGENT_PATH
        THEN LET user_agent == get_header(req, USER_AGENT)
             IN  IF user_agent.some
                 THEN [kind |-> "Ok", response |-> write_text(res, user_agent.value)]
                 ELSE [kind |-> "Panic", response |-> res]
        ELSE IF StartsWith(target, ECHO_PREFIX)
        THEN [kind |-> "Ok",
              response |-> write_text(res, trim_start_matches(target, ECHO_PREFIX))]
        ELSE [kind |-> "Ok", response |-> res]

\* handle_request: kind is "Ok" with the response it returns, or "Panic"
\* when get_header("User-Agent") is None and is unwrapped
handle_request(req, res) ==
    LET target == req.request_line.target
    IN  IF target = ROOT_PATH THEN [kind |-> "Ok", response |-> res]
        ELSE IF target = USER_AGENT_PATH
        THEN LET user_agent == get_header(req, USER_AGENT)
             IN  IF user_agent.some
                 THEN [kind |-> "Ok", response |-> write_text(res, user_agent.value)]
                 ELSE [kind |-> "Panic", response |-> res]
        ELSE IF StartsWith(target, ECHO_PREFIX)
        THEN [kind |-> "Ok",
              response |-> write_text(res, trim_start_matches(target, ECHO_PREFIX))]
        ELSE [kind |-> "Ok", response |-> set_status(res, "NotFound")]

\* .expect("Failed to parse the request.") with Err taken for a request
expect_lenient(at) == "unwrapped"

\* .expect("Failed to parse the request.") on what from_stream returned:
\* the request of Ok, a panic on Err
expect(at) == IF at = "parsed" THEN "unwrapped" ELSE "panicked"

\* the statements of handle_connection with the request read again after
\* the write
handle_connection_next_keep_alive(at) ==
    CASE at = "unwrapped" -> "routed"
      [] at = "routed" -> "written"
      [] at = "written" -> "request_line"

\* The statements of handle_connection that follow one another: the request
\* is routed, the response is written, the function ends and the stream is
\* dropped.
handle_connection_next(at) ==
    CASE at = "unwrapped" -> "routed"
      [] at = "routed" -> "written"
      [] at = "written" -> "closed"

\* the read of a byte fails on a broken connection: the scanner returns the
\* error and from_stream passes it on
ReadFails ==
    /\ pc \in {"request_line", "first_header", "headers"}
    /\ reset
    /\ pc' = "failed"
    /\ error' = ConnectionReset
    /\ UNCHANGED <<build, stream, closed, pos, sequence, scanned, request_line, headers,
                   returned, sent, handlerVars, serverVars>>

\* HttpRequest::from_stream(..).expect(..)
Expect ==
    /\ build = "main"
    /\ pc \in {"parsed", "failed"}
    /\ pc' = expect(pc)
    /\ UNCHANGED <<build, stream, closed, pos, sequence, scanned, request_line, headers,
                   error, returned, sent, handlerVars, serverVars>>

\* HttpResponse::new(request.request_line.version.clone()) and
\* handle_request(request, response)
Route ==
    /\ build = "main"
    /\ pc = "unwrapped"
    /\ LET r == handle_request(returned, HttpResponse_new(returned.request_line.version))
       IN  /\ response' = r.response
           /\ pc' = IF r.kind = "Ok" THEN handle_connection_next(pc) ELSE "panicked"
    /\ routed' = routed + 1
    /\ UNCHANGED <<build, stream, closed, pos, sequence, scanned, request_line, headers,
                   error, returned, sent, reset, written, calls, serverVars>>

\* stream.write_all(response.to_string().as_bytes()).unwrap(), the write
\* succeeding
Write ==
    /\ build = "main"
    /\ pc = "routed"
    /\ written' = written \o HttpResponse_to_string(response)
    /\ pc' = handle_connection_next(pc)
    /\ UNCHANGED <<build, stream, closed, pos, sequence, scanned, request_line, headers,
                   error, returned, sent, reset, response, routed, calls, serverVars>>

\* write_all fails on a broken connection and unwrap panics
WriteFails ==
    /\ build = "main"
    /\ pc = "routed"
    /\ reset
    /\ pc' = "panicked"
    /\ UNCHANGED <<build, stream, closed, pos, sequence, scanned, request_line, headers,
                   error, returned, sent, handlerVars, serverVars>>

\* handle_connection returns: the stream is dropped, the connection closed
Close ==
    /\ build = "main"
    /\ pc = "written"
    /\ pc' = handle_connection_next(pc)
    /\ UNCHANGED <<build, stream, closed, pos, sequence, scanned, request_line, headers,
                   error, returned, sent, handlerVars, serverVars>>

\* a panic unwinds the thread of the connection: the stream is dropped, the
\* connection closed, nothing more runs
Unwind ==
    /\ build = "main"
    /\ pc = "panicked"
    /\ pc' = "unwound"
    /\ UNCHANGED <<build, stream, closed, pos, sequence, scanned, request_line, headers,
                   error, returned, sent, handlerVars, serverVars>>

----------------------------------------------------------------------------
(* The scanner on its own: any stream, any delimiter, scans one after the   *)
(* other on the same source.                                               *)

ScanAlphabet == {CR, LF}

InitScan ==
    /\ build = "http"
    /\ stream \in SeqsOf(ScanAlphabet, 0, MaxScanLen)
    /\ sequence \in SeqsOf(ScanAlphabet, 0, MaxDelimLen)
    /\ closed = FALSE
    /\ pos = 0
    /\ pc = "scan"
    /\ scanned = NoScan
    /\ request_line = NoRequestLine
    /\ headers = <<>>
    /\ error = NoError
    /\ returned = NoRequest
    /\ sent = 0
    /\ reset = FALSE
    /\ response = NoResponse
    /\ written = <<>>
    /\ routed = 0
    /\ calls = 0
    /\ conns = <<>>
    /\ listener = 0

\* One call of parse_stream_untill_sequence that returns.
Scan ==
    /\ pc = "scan"
    /\ LET r == parse_stream_untill_sequence(stream, pos, closed, sequence)
       IN  /\ r.kind # "Blocked"
           /\ scanned' = [kind |-> r.kind, buffer |-> r.buffer, from |-> pos,
                          pos |-> r.pos]
           /\ pos' = r.pos
    /\ UNCHANGED <<build, stream, closed, pc, sequence, request_line, headers,
                   error, returned, sent, handlerVars, serverVars>>

\* The peer closes its sending side.
PeerClose ==
    /\ pc \in {"scan", "request_line", "first_header", "headers"}
    /\ ~closed
    /\ closed' = TRUE
    /\ UNCHANGED <<build, stream, pos, pc, sequence, scanned, request_line,
                   headers, error, returned, sent, handlerVars, serverVars>>

NextScan == Scan \/ PeerClose

SpecScan == InitScan /\ [][NextScan]_vars

----------------------------------------------------------------------------
(* The request-line parser on its own: one line from a vocabulary of       *)
(* methods, targets and versions, known and unknown, and of lines that     *)
(* are not three words.                                                    *)

MethodWords == {GET, POST, DELETE, PATCH, PUT, <<"g", "e", "t">>, GET \o <<"X">>, Empty}

TextTargets == {<<"/">>, <<"/", "a">>, <<"/", CR>>, <<"/", ":", "b">>, Empty}

Targets == TextTargets \union {<<"/", XFF>>}

VersionWords ==
    {HTTP_1_0, HTTP_1_1, HTTP_2_0, HTTP_ \o <<"1", ".", "2">>, HTTP_ \o <<"3">>,
     <<"h", "t", "t", "p", "/", "1", ".", "1">>, Empty}

\* the words, each followed by one space but the last
RECURSIVE JoinWords(_)
JoinWords(ws) ==
    IF Len(ws) = 1 THEN ws[1] ELSE ws[1] \o <<SP>> \o JoinWords(Tail(ws))

ThreeWordLines ==
    {JoinWords(<<m, t, v>>) : m \in MethodWords, t \in Targets, v \in VersionWords}

FourWordLines ==
    {JoinWords(<<m, <<"/">>, v, <<"x">>>>) : m \in {GET, <<"F", "O", "O">>},
                                             v \in {HTTP_1_1, HTTP_ \o <<"3">>}}

ShortLines ==
    {JoinWords(<<m>>) : m \in MethodWords \union {<<XFF>>}}
        \union {JoinWords(<<m, t>>) : m \in {GET, <<"F", "O", "O">>}, t \in Targets}

RequestLines == ThreeWordLines \union FourWordLines \union ShortLines

\* what may follow the request line's CRLF on the wire
Followers == {Empty, CRLF, <<"A", ":", SP, "1">> \o CRLF \o CRLF}

InitLine ==
    /\ build \in {"main", "http"}
    /\ \E line \in RequestLines :
          \/ \E rest \in Followers : stream = line \o CRLF \o rest
          \/ stream = line
    /\ closed = TRUE
    /\ pos = 0
    /\ pc = "request_line"
    /\ sequence = CRLF
    /\ scanned = NoScan
    /\ request_line = NoRequestLine
    /\ headers = <<>>
    /\ error = NoError
    /\ returned = NoRequest
    /\ sent = 0
    /\ reset = FALSE
    /\ response = NoResponse
    /\ written = <<>>
    /\ routed = 0
    /\ calls = 0
    /\ conns = <<>>
    /\ listener = 0

SpecLine == InitLine /\ [][ParseRequestLine]_vars

----------------------------------------------------------------------------
(* One connection: the peer sends a request line and header-phase chunks,  *)
(* or closes, and HttpRequest::from_stream reads them.  The parser sees    *)
(* only the order of the bytes and where they end, so the peer sends a     *)
(* chunk when the parser waits for one: sending it earlier changes nothing *)
(* the parser reads.                                                       *)

\* the request lines the peer sends
SentRequestLines ==
    {JoinWords(<<GET, <<"/">>, HTTP_1_1>>),
     JoinWords(<<POST, <<"/", "a">>, HTTP_1_0>>),
     JoinWords(<<GET, <<"/">>>>),
     JoinWords(<<GET, <<"/", "a">>, HTTP_2_0>>),
     JoinWords(<<GET, USER_AGENT_PATH, HTTP_1_1>>),
     JoinWords(<<GET, ECHO_PREFIX \o <<"a", "b">>, HTTP_1_1>>),
     JoinWords(<<GET, ECHO_PREFIX \o ECHO_PREFIX \o <<"a">>, HTTP_1_0>>)}

\* header names and values the peer sends
HeaderNames == {<<"A">>, USER_AGENT}
HeaderValues == {<<"1">>, <<"1", ":", SP, "2">>}

\* the line of a header
HeaderLine(name, value) == name \o COLON_SP \o value

\* header-phase lines: headers, lines without the separator, blank lines, a
\* line that is not UTF-8
HeaderLines ==
    {HeaderLine(n, v) : n \in HeaderNames, v \in HeaderValues}
        \union {<<"A", ":", "1">>, <<"A", ":", SP>>, Empty, <<SP>>, <<"A", ":", SP, XFF>>}

\* what the peer sends at once in the header phase: a line with its CRLF, or
\* bytes that do not end a line
HeaderChunks == {line \o CRLF : line \in HeaderLines} \union {<<"A">>}

\* the next read of a line would not return: there is no CRLF ahead
Awaiting == parse_stream_untill_sequence(stream, pos, FALSE, CRLF).kind = "Blocked"

Init ==
    /\ build \in {"main", "http"}
    /\ stream = <<>>
    /\ closed = FALSE
    /\ pos = 0
    /\ pc = "request_line"
    /\ sequence = CRLF
    /\ scanned = NoScan
    /\ request_line = NoRequestLine
    /\ headers = <<>>
    /\ error = NoError
    /\ returned = NoRequest
    /\ sent = 0
    /\ reset = FALSE
    /\ response = NoResponse
    /\ written = <<>>
    /\ routed = 0
    /\ calls = 0
    /\ conns = <<>>
    /\ listener = 0

PeerSendRequestLine ==
    /\ pc = "request_line"
    /\ ~closed
    /\ ~reset
    /\ stream = <<>>
    /\ \E line \in SentRequestLines : stream' = line \o CRLF
    /\ UNCHANGED <<build, closed, pos, pc, sequence, scanned, request_line, headers,
                   error, returned, sent, handlerVars, serverVars>>

PeerSendHeaderChunk ==
    /\ pc \in {"first_header", "headers"}
    /\ ~closed
    /\ ~reset
    /\ Awaiting
    /\ sent < MaxHeaderLines
    /\ \E chunk \in HeaderChunks : stream' = stream \o chunk
    /\ sent' = sent + 1
    /\ UNCHANGED <<build, closed, pos, pc, sequence, scanned, request_line, headers,
                   error, returned, handlerVars, serverVars>>

\* the connection breaks while the handler runs
PeerReset ==
    /\ pc \in {"request_line", "first_header", "headers", "parsed", "unwrapped", "routed"}
    /\ ~closed
    /\ ~reset
    /\ reset' = TRUE
    /\ UNCHANGED <<build, stream, closed, pos, pc, sequence, scanned, request_line,
                   headers, error, returned, sent, response, written, routed, calls, serverVars>>

Next ==
    \/ PeerSendRequestLine
    \/ PeerSendHeaderChunk
    \/ PeerClose
    \/ PeerReset
    \/ ParseRequestLine
    \/ ParseFirstHeader
    \/ ParseNextHeader
    \/ ReadFails
    \/ Expect
    \/ Route
    \/ Write
    \/ WriteFails
    \/ Close
    \/ Unwind

Spec == Init /\ [][Next]_vars

----------------------------------------------------------------------------
(* A response on its own: it is made by HttpResponse::new, its builder     *)
(* methods are called in any order, and it is serialized.                  *)

\* most builder calls on one response
MaxBuilderCalls == 3

\* header names and values given to add_header
BuilderNames == {<<"X">>, CONTENT_LENGTH}
BuilderValues == {<<"1">>, Empty}

\* texts given to add_content and write_text: empty, one byte, one with a
\* CRLF inside, and one of ten bytes or more
BuilderTexts ==
    {Empty, <<"a">>, <<"a", CR, LF, "b">>,
     <<"h", "e", "l", "l", "o", SP, "w", "o", "r", "l", "d">>}

InitResponse ==
    /\ build \in {"main", "http"}
    /\ stream = <<>>
    /\ closed = FALSE
    /\ pos = 0
    /\ pc = "build"
    /\ sequence = CRLF
    /\ scanned = NoScan
    /\ request_line = NoRequestLine
    /\ headers = <<>>
    /\ error = NoError
    /\ returned = NoRequest
    /\ sent = 0
    /\ reset = FALSE
    /\ \E version \in {"Http1_0", "Http1_1", "Http2_0"} :
           response = HttpResponse_new(version)
    /\ written = <<>>
    /\ routed = 0
    /\ calls = 0
    /\ conns = <<>>
    /\ listener = 0

parserVars ==
    <<build, stream, closed, pos, sequence, scanned, request_line, headers, error,
      returned, sent>>

AddHeader ==
    /\ pc = "build"
    /\ calls < MaxBuilderCalls
    /\ \E name \in BuilderNames, value \in BuilderValues :
           response' = add_header(response, name, value)
    /\ calls' = calls + 1
    /\ UNCHANGED <<parserVars, pc, reset, written, routed, serverVars>>

SetStatus ==
    /\ pc = "build"
    /\ calls < MaxBuilderCalls
    /\ \E status \in HttpStatus : response' = set_status(response, status)
    /\ calls' = calls + 1
    /\ UNCHANGED <<parserVars, pc, reset, written, routed, serverVars>>

AddContent ==
    /\ pc = "build"
    /\ calls < MaxBuilderCalls
    /\ \E content \in BuilderTexts : response' = add_content(response, content)
    /\ calls' = calls + 1
    /\ UNCHANGED <<parserVars, pc, reset, written, routed, serverVars>>

WriteText ==
    /\ pc = "build"
    /\ calls < MaxBuilderCalls
    /\ \E text \in BuilderTexts : response' = write_text(response, text)
    /\ calls' = calls + 1
    /\ UNCHANGED <<parserVars, pc, reset, written, routed, serverVars>>

\* response.to_string(): the text is kept in written
Serialize ==
    /\ pc = "build"
    /\ written' = HttpResponse_to_string(response)
    /\ pc' = "serialized"
    /\ UNCHANGED <<parserVars, reset, response, routed, calls, serverVars>>

NextResponse ==
    \/ AddHeader
    \/ SetStatus
    \/ AddContent
    \/ WriteText
    \/ Serialize

SpecResponse == InitResponse /\ [][NextResponse]_vars

----------------------------------------------------------------------------
(* The server of src/main.rs: the accept loop spawns one thread for each   *)
(* connection, and each thread runs handle_connection on its own stream.   *)
(* The threads share no data, so a thread takes from_stream in one step.   *)

\* most connections the peers open
MaxConns == 2
\* most errors listener.incoming() yields
MaxAcceptErrors == 1

\* what a peer sends on its connection, all at once: requests with a header,
\* a request without headers, a request with a method src/main.rs does not
\* know, a request line of two words
ConnScripts ==
    {JoinWords(<<GET, ROOT_PATH, HTTP_1_1>>) \o CRLF \o HeaderLine(<<"A">>, <<"1">>)
         \o CRLF \o CRLF,
     JoinWords(<<GET, ECHO_PREFIX \o <<"a", "b">>, HTTP_1_0>>) \o CRLF
         \o HeaderLine(<<"A">>, <<"1">>) \o CRLF \o CRLF,
     JoinWords(<<GET, ROOT_PATH, HTTP_1_1>>) \o CRLF \o CRLF,
     JoinWords(<<POST, ROOT_PATH, HTTP_1_1>>) \o CRLF \o CRLF,
     JoinWords(<<GET, ROOT_PATH>>) \o CRLF}

RECURSIVE header_loop(_, _, _, _)
\* the loop of HttpRequest::from_stream run to its end on the bytes at hand
header_loop(bytes, from, eof, hs) ==
    LET r == read_header(bytes, from, eof)
        next == loop_turn(r.h.kind)
    IN  IF r.h.kind = "Blocked" THEN [kind |-> "Blocked", headers |-> hs]
        ELSE IF next = "headers"
        THEN header_loop(bytes, r.pos, eof, push_header(hs, r.h))
        ELSE [kind |-> next, headers |-> hs]

\* HttpRequest::from_stream run to its end on the bytes at hand: kind is
\* "parsed" with the request, "failed", "panicked" or "Blocked"
HttpRequest_from_stream(b, bytes, eof) ==
    LET l == HttpRequestLine_from_stream(b, bytes, 0, eof)
        first == read_header(bytes, l.pos, eof)
        rest == header_loop(bytes, first.pos, eof,
                            IF first.h.kind = "Header" THEN push_header(<<>>, first.h)
                            ELSE <<>>)
    IN  IF l.kind # "Ok"
        THEN [kind |-> CASE l.kind = "Err" -> "failed"
                         [] l.kind = "Panic" -> "panicked"
                         [] OTHER -> "Blocked",
              request |-> NoRequest]
        ELSE IF first.h.kind \in {"Blocked", "Err", "Panic"}
        THEN [kind |-> CASE first.h.kind = "Err" -> "failed"
                         [] first.h.kind = "Panic" -> "panicked"
                         [] OTHER -> "Blocked",
              request |-> NoRequest]
        ELSE IF rest.kind # "parsed" THEN [kind |-> rest.kind, request |-> NoRequest]
        ELSE [kind |-> "parsed",
              request |-> [request_line |-> l.line, headers |-> rest.headers,
                           body |-> "None"]]

\* the threads a panic in the thread of connection c ends: thread::spawn
\* gives each connection its own thread, and a panic unwinds that one only
panic_ends(c) == {c}

Conns == 1..MaxConns

\* a connection that the accept loop has not taken yet
Waiting(script, eof) ==
    [at |-> "waiting", stream |-> script, closed |-> eof, request |-> NoRequest,
     response |-> NoResponse, written |-> Empty]

InitServer ==
    /\ build = "main"
    /\ stream = <<>>
    /\ closed = FALSE
    /\ pos = 0
    /\ pc = "serve"
    /\ sequence = CRLF
    /\ scanned = NoScan
    /\ request_line = NoRequestLine
    /\ headers = <<>>
    /\ error = NoError
    /\ returned = NoRequest
    /\ sent = 0
    /\ reset = FALSE
    /\ response = NoResponse
    /\ written = <<>>
    /\ routed = 0
    /\ calls = 0
    /\ conns \in [Conns -> {Waiting(script, eof) : script \in ConnScripts, eof \in BOOLEAN}]
    /\ listener = 0

connVars ==
    <<build, stream, closed, pos, pc, sequence, scanned, request_line, headers, error,
      returned, sent, handlerVars>>

\* listener.incoming() yields Ok(stream): thread::spawn(|| handle_connection(stream))
Accept ==
    /\ \E c \in Conns :
           /\ conns[c].at = "waiting"
           /\ conns' = [conns EXCEPT ![c].at = "spawned"]
    /\ UNCHANGED <<connVars, listener>>

\* listener.incoming() yields Err(e): it is printed and the loop goes on
AcceptError ==
    /\ listener < MaxAcceptErrors
    /\ listener' = listener + 1
    /\ UNCHANGED <<connVars, conns>>

\* HttpRequest::from_stream(..).expect(..) in the thread of a connection
ThreadParse ==
    /\ \E c \in Conns :
           LET r == HttpRequest_from_stream(build, conns[c].stream, conns[c].closed)
           IN  /\ conns[c].at = "spawned"
               /\ r.kind # "Blocked"
               /\ conns' = [conns EXCEPT ![c].request = r.request,
                                         ![c].at = IF r.kind = "panicked" THEN "panicked"
                                                   ELSE expect(r.kind)]
    /\ UNCHANGED <<connVars, listener>>

\* HttpResponse::new(..) and handle_request(request, response) in the thread
ThreadRoute ==
    /\ \E c \in Conns :
           LET r == handle_request(conns[c].request,
                                   HttpResponse_new(conns[c].request.request_line.version))
           IN  /\ conns[c].at = "unwrapped"
               /\ conns' = [conns EXCEPT ![c].response = r.response,
                                         ![c].at = IF r.kind = "Ok"
                                                   THEN handle_connection_next(@)
                                                   ELSE "panicked"]
    /\ UNCHANGED <<connVars, listener>>

\* stream.write_all(response.to_string().as_bytes()).unwrap() in the thread
ThreadWrite ==
    /\ \E c \in Conns :
           /\ conns[c].at = "routed"
           /\ conns' = [conns EXCEPT ![c].written = HttpResponse_to_string(conns[c].response),
                                     ![c].at = handle_connection_next(@)]
    /\ UNCHANGED <<connVars, listener>>

\* handle_connection returns in the thread: its stream is dropped
ThreadClose ==
    /\ \E c \in Conns :
           /\ conns[c].at = "written"
           /\ conns' = [conns EXCEPT ![c].at = handle_connection_next(@)]
    /\ UNCHANGED <<connVars, listener>>

\* a panic ends the thread it happened in
ThreadUnwind ==
    /\ \E c \in Conns :
           /\ conns[c].at = "panicked"
           /\ conns' = [d \in Conns |->
                           IF d \in panic_ends(c) THEN [conns[d] EXCEPT !.at = "unwound"]
                           ELSE conns[d]]
    /\ UNCHANGED <<connVars, listener>>

NextServer ==
    \/ Accept
    \/ AcceptError
    \/ ThreadParse
    \/ ThreadRoute
    \/ ThreadWrite
    \/ ThreadClose
    \/ ThreadUnwind

SpecServer == InitServer /\ [][NextServer]_vars

----------------------------------------------------------------------------
(* The scanner's contract, stated without the loop.                        *)

\* seq occurs in bytes with its first byte at byte number k
OccursAt(bytes, seq, k) ==
    /\ k >= 1
    /\ k + Len(seq) - 1 <= Len(bytes)
    /\ SubSeq(bytes, k, k + Len(seq) - 1) = seq

\* where the first occurrence of seq in bytes after the first `from` bytes
\* starts; 0 when there is none
FirstOccurrence(bytes, seq, from) ==
    LET ks == {k \in (from + 1)..Len(bytes) : OccursAt(bytes, seq, k)}
    IN  IF ks = {} THEN 0 ELSE CHOOSE k \in ks : \A j \in ks : k <= j

\* the source ends before a scan that starts after `from` bytes can match seq
\* (the empty delimiter matches after any one byte)
EndsUnmatched(bytes, seq, from) ==
    IF seq = <<>> THEN from >= Len(bytes) ELSE FirstOccurrence(bytes, seq, from) = 0

\* C5: whenever the stream holds the non-empty delimiter after the bytes already
\* consumed, a scan returns Ok with exactly the bytes before the delimiter's
\* first occurrence, and the source has then handed out exactly those bytes and
\* the delimiter: the next read starts at the byte after the delimiter.
C5_ScanReturnsBytesBeforeDelimiter ==
    (/\ scanned.kind # "None"
     /\ Len(sequence) > 0
     /\ FirstOccurrence(stream, sequence, scanned.from) # 0)
    => LET k == FirstOccurrence(stream, sequence, scanned.from)
       IN  /\ scanned.kind = "Ok"
           /\ scanned.buffer = SubSeq(stream, scanned.from + 1, k - 1)
           /\ scanned.pos = k + Len(sequence) - 1
           /\ pos = scanned.pos

\* A second scan on the same source has matched a three-byte delimiter whose
\* first two bytes are equal, after bytes that end with that byte repeated.
C5_Witness ==
    /\ scanned.kind = "Ok"
    /\ scanned.from > 0
    /\ Len(sequence) = 3
    /\ sequence[1] = sequence[2]
    /\ sequence[2] # sequence[3]
    /\ Len(scanned.buffer) >= 1
    /\ scanned.buffer[Len(scanned.buffer)] = sequence[1]

\* C6: a scan that meets the end of the stream before the delimiter has matched
\* returns Err: not Ok with the bytes read so far.  (A scan that returns at all
\* without a match has seen the peer close; until then it waits.)
C6_UnterminatedStreamIsErr ==
    (scanned.kind # "None" /\ EndsUnmatched(stream, sequence, scanned.from))
    => (scanned.kind = "Err" /\ closed /\ pos = Len(stream))

\* A scan has failed at the end of a stream that held bytes but no delimiter.
C6_Witness ==
    /\ scanned.kind = "Err"
    /\ Len(sequence) = 2
    /\ Len(stream) - scanned.from >= 2
    /\ EndsUnmatched(stream, sequence, scanned.from)

----------------------------------------------------------------------------
(* The request-line parser's contract.                                     *)

\* the method tokens a build supports
SupportedMethods(b) == IF b = "main" THEN {GET} ELSE {GET, POST, DELETE, PATCH, PUT}

\* the version tokens
SupportedVersions == {HTTP_1_0, HTTP_1_1, HTTP_2_0}

\* the method a token names
MethodNamed(m) ==
    CASE m = GET -> "Get" [] m = POST -> "Post" [] m = DELETE -> "Delete"
      [] m = PATCH -> "Patch" [] m = PUT -> "Put"

\* the version a token names
VersionNamed(v) ==
    CASE v = HTTP_1_0 -> "Http1_0" [] v = HTTP_1_1 -> "Http1_1" [] v = HTTP_2_0 -> "Http2_0"

\* t holds no space and no CRLF
IsTargetToken(t) == (\A i \in 1..Len(t) : t[i] # SP) /\ FirstOccurrence(t, CRLF, 0) = 0

\* HttpRequestLine::from_stream has returned or panicked on a stream whose
\* first line is the three words m, t, v
ParsedLineOf(m, t, v) ==
    /\ pc # "request_line"
    /\ StartsWith(stream, JoinWords(<<m, t, v>>) \o CRLF)

\* C1: a stream that begins with "M T V\r\n", M and V supported and T a text
\* without space or CRLF, parses to the request line (M, T, V), T unchanged.
C1_RequestLineParsed ==
    \A m \in SupportedMethods(build), t \in TextTargets, v \in SupportedVersions :
        (IsTargetToken(t) /\ ParsedLineOf(m, t, v))
        => /\ pc = "first_header"
           /\ request_line =
                  [method |-> MethodNamed(m), target |-> t, version |-> VersionNamed(v)]
           /\ error = NoError

\* "PATCH /:b HTTP/2.0" has been parsed by the build that knows PATCH.
C1_Witness ==
    /\ build = "http"
    /\ ParsedLineOf(PATCH, <<"/", ":", "b">>, HTTP_2_0)
    /\ request_line.method = "Patch"
    /\ request_line.target = <<"/", ":", "b">>

\* C7: every request line whose method token the build does not support makes
\* from_stream return Err(UnknownMethodError) carrying that token.
C7_UnknownMethodCarriesToken ==
    \A m \in MethodWords \ SupportedMethods(build), t \in TextTargets, v \in VersionWords :
        ParsedLineOf(m, t, v)
        => /\ pc = "failed"
           /\ error = [type |-> "UnknownMethodError", has_token |-> TRUE, token |-> m]

\* C8 as stated: every request line whose version token is unknown makes
\* from_stream return Err(UnknownHttpVersion) carrying that token, whatever
\* its method token.
C8_UnknownVersionWhateverMethod ==
    \A m \in MethodWords, t \in TextTargets, v \in VersionWords \ SupportedVersions :
        ParsedLineOf(m, t, v)
        => /\ pc = "failed"
           /\ error = [type |-> "UnknownHttpVersion", has_token |-> TRUE, token |-> v]

\* C8, amended: every request line whose method token is supported and whose
\* version token is unknown makes from_stream return Err(UnknownHttpVersion)
\* carrying that version token.
C8_UnknownVersionAfterKnownMethod ==
    \A m \in SupportedMethods(build), t \in TextTargets,
       v \in VersionWords \ SupportedVersions :
        ParsedLineOf(m, t, v)
        => /\ pc = "failed"
           /\ error = [type |-> "UnknownHttpVersion", has_token |-> TRUE, token |-> v]

\* "GET /a HTTP/1.2" has been refused for its version.
C8_Witness ==
    /\ ParsedLineOf(GET, <<"/", "a">>, HTTP_ \o <<"1", ".", "2">>)
    /\ pc = "failed"
    /\ error.type = "UnknownHttpVersion"

\* C9: a request line of fewer than three words makes from_stream return an
\* error value; the thread never panics.
C9_ShortLineIsErr ==
    \A line \in ShortLines :
        (pc # "request_line" /\ StartsWith(stream, line \o CRLF))
        => (pc = "failed" /\ error # NoError)

----------------------------------------------------------------------------
(* The header block's contract, stated on the bytes of the wire.           *)

\* the complete lines of bytes: what stands before each CRLF
WireLines(bytes) ==
    LET pieces == SplitFrom(bytes, CRLF, <<>>)
    IN  SubSeq(pieces, 1, Len(pieces) - 1)

\* the lines the peer has sent after the request line
HeaderPhaseLines == Tail(WireLines(stream))

\* the lines after the request line that the parser has consumed
ConsumedHeaderLines == Tail(WireLines(SubSeq(stream, 1, pos)))

\* nothing is left of the line after trimming
IsBlank(line) == \A i \in 1..Len(line) : line[i] \in Whitespace

IsNotBlank(line) == ~IsBlank(line)

\* the number of the first blank line of ls, 0 when there is none
FirstBlank(ls) ==
    LET ks == {k \in 1..Len(ls) : IsBlank(ls[k])}
    IN  IF ks = {} THEN 0 ELSE CHOOSE k \in ks : \A j \in ks : k <= j

\* the lines "name: value" of the vocabulary
GoodHeaderLines == {HeaderLine(n, v) : n \in HeaderNames, v \in HeaderValues}

\* the (name, value) a line of the vocabulary was written from
PairOf(line) ==
    CHOOSE p \in HeaderNames \X HeaderValues : HeaderLine(p[1], p[2]) = line

RECURSIVE WireLength(_)
\* the bytes that the lines take on the wire, each with its CRLF
WireLength(ls) ==
    IF ls = <<>> THEN 0 ELSE Len(Head(ls)) + Len(CRLF) + WireLength(Tail(ls))

\* the request line has been parsed, the peer has sent k-1 headers of the
\* vocabulary and then a blank line, no read has failed on a broken
\* connection, and from_stream is over
OverAfterBlankLine(k) ==
    /\ request_line # NoRequestLine
    /\ pc \in {"parsed", "failed", "panicked"}
    /\ error # ConnectionReset
    /\ routed = 0
    /\ k # 0
    /\ \A j \in 1..(k - 1) : HeaderPhaseLines[j] \in GoodHeaderLines

\* C2: from_stream stops at the first blank line after the request line,
\* without error and without reading further: it returns Ok having consumed
\* the request line, the headers and that blank line, and no more, also when
\* the blank line comes first.
C2_StopsAtFirstBlankLine ==
    LET k == FirstBlank(HeaderPhaseLines)
    IN  OverAfterBlankLine(k)
        => /\ pc = "parsed"
           /\ pos = WireLength(SubSeq(WireLines(stream), 1, k + 1))
           /\ Len(returned.headers) = k - 1

\* C3: the headers "N1: V1" ... "Nk: Vk" followed by an empty line parse to
\* the list <<(N1, V1), ..., (Nk, Vk)>>: one entry a line, in wire order,
\* equal names kept apart.
C3_HeadersInWireOrder ==
    LET k == FirstBlank(HeaderPhaseLines)
    IN  (OverAfterBlankLine(k) /\ HeaderPhaseLines[k] = Empty)
        => /\ pc = "parsed"
           /\ returned.headers = [j \in 1..(k - 1) |-> PairOf(HeaderPhaseLines[j])]

\* C4: each header the parser holds is its line cut at the first ": ": the
\* name is what stands before it and the value all that follows it.
C4_SplitOnFirstSeparator ==
    (request_line # NoRequestLine /\ pc \in {"first_header", "headers", "parsed"})
    => LET ls == SelectSeq(ConsumedHeaderLines, IsNotBlank)
       IN  /\ Len(headers) = Len(ls)
           /\ \A i \in 1..Len(ls) :
                 LET line == trim(ls[i])
                     k == FirstOccurrence(line, COLON_SP, 0)
                 IN  headers[i] = <<SubSeq(line, 1, k - 1), Drop(line, k + 1)>>

\* C10: a line that is not blank and holds no ": " makes from_stream return
\* Err: no panic, and no header for that line.
C10_MissingSeparatorIsErr ==
    LET ls == ConsumedHeaderLines
    IN  (/\ request_line # NoRequestLine
         /\ Len(ls) > 0
         /\ IsUtf8(ls[Len(ls)])
         /\ IsNotBlank(ls[Len(ls)])
         /\ FirstOccurrence(ls[Len(ls)], COLON_SP, 0) = 0)
        => /\ error # NoError
           /\ Len(headers) = Len(SelectSeq(ls, IsNotBlank)) - 1

----------------------------------------------------------------------------
(* Claims about the response model.                                        *)

\* the decimal digits
DecimalDigits == <<"0", "1", "2", "3", "4", "5", "6", "7", "8", "9">>

\* the number a digit character stands for
DigitValue(c) == (CHOOSE i \in 1..10 : DecimalDigits[i] = c) - 1

RECURSIVE DecimalValue(_)
\* the number a text of digits stands for
DecimalValue(s) ==
    IF s = <<>> THEN 0
    ELSE 10 * DecimalValue(SubSeq(s, 1, Len(s) - 1)) + DigitValue(s[Len(s)])

\* s is n written as a decimal integer
IsDecimalOf(s, n) ==
    /\ s # <<>>
    /\ \A i \in 1..Len(s) : \E d \in 1..10 : DecimalDigits[d] = s[i]
    /\ Len(s) > 1 => s[1] # "0"
    /\ DecimalValue(s) = n

\* the response is one that HttpResponse::new has just made
IsFresh(r) == r.headers = <<>> /\ r.content = Empty /\ r.status_line.status = "Ok"

\* C12: write_text(t) on a fresh response leaves the headers exactly
\* ("Content-Type", "text/plain") then ("Content-Length", the byte length of
\* t in decimal), the content t, and the status OK with the version kept.
C12_WriteTextOnFresh ==
    [][(IsFresh(response) /\ WriteText)
          => /\ Len(response'.headers) = 2
             /\ response'.headers[1]
                  = << <<"C", "o", "n", "t", "e", "n", "t", "-", "T", "y", "p", "e">>,
                       <<"t", "e", "x", "t", "/", "p", "l", "a", "i", "n">> >>
             /\ response'.headers[2][1]
                  = <<"C", "o", "n", "t", "e", "n", "t", "-", "L", "e", "n", "g", "t", "h">>
             /\ IsDecimalOf(response'.headers[2][2], Len(response'.content))
             /\ response'.content \in BuilderTexts
             /\ response'.status_line = [version |-> response.status_line.version,
                                         status |-> "Ok"]]_vars

\* write_text has been called once, on a fresh response, with a text of ten
\* bytes or more
C12_Witness ==
    /\ pc = "build"
    /\ calls = 1
    /\ Len(response.headers) = 2
    /\ response.headers[1][1] = CONTENT_TYPE
    /\ response.headers[2] = <<CONTENT_LENGTH, <<"1", "1">>>>
    /\ Len(response.content) = 11

RECURSIVE WriteTexts(_, _)
\* the response after write_text has been called with each of texts in turn
WriteTexts(r, texts) ==
    IF texts = <<>> THEN r ELSE WriteTexts(write_text(r, Head(texts)), Tail(texts))

\* the response is what one or more write_text calls, and no other call, make
\* of a new response
AfterWriteTextsOnly ==
    /\ pc = "build"
    /\ calls >= 1
    /\ \E texts \in [1..calls -> BuilderTexts] :
           response = WriteTexts(HttpResponse_new(response.status_line.version), texts)

\* C13: after one or more write_text calls, every Content-Length header of
\* the response gives the byte length of the content.
C13_ContentLengthAgrees ==
    AfterWriteTextsOnly
        => \A i \in 1..Len(response.headers) :
               response.headers[i][1] = CONTENT_LENGTH
                   => IsDecimalOf(response.headers[i][2], Len(response.content))

\* the version token of a version
VersionText(version) == CHOOSE v \in SupportedVersions : VersionNamed(v) = version

\* the text of a status
StatusText(status) ==
    IF status = "Ok" THEN <<"2", "0", "0", " ", "O", "K">>
    ELSE <<"4", "0", "4", " ", "N", "o", "t", " ", "F", "o", "u", "n", "d">>

\* the line of header i of r, with its CRLF
HeaderText(r, i) == r.headers[i][1] \o <<":", " ">> \o r.headers[i][2] \o <<"\r", "\n">>

RECURSIVE HeaderOffset(_, _)
\* where the line of header i of r begins in the serialization: after the
\* status line, its CRLF and the lines of the headers before it
HeaderOffset(r, i) ==
    IF i = 1
    THEN Len(VersionText(r.status_line.version)) + 1
             + Len(StatusText(r.status_line.status)) + 2
    ELSE HeaderOffset(r, i - 1) + Len(HeaderText(r, i - 1))

\* text is the serialization of r: the status line, the header lines in
\* insertion order, an empty line, the content
IsSerializationOf(text, r) ==
    LET n == Len(r.headers)
        end == HeaderOffset(r, n + 1)
    IN  /\ StartsWith(text, VersionText(r.status_line.version) \o <<" ">>
                                \o StatusText(r.status_line.status) \o <<"\r", "\n">>)
        /\ Len(text) = end + 2 + Len(r.content)
        /\ \A i \in 1..n :
               SubSeq(text, HeaderOffset(r, i) + 1, HeaderOffset(r, i + 1)) = HeaderText(r, i)
        /\ SubSeq(text, end + 1, end + 2) = <<"\r", "\n">>
        /\ SubSeq(text, end + 3, Len(text)) = r.content

\* C14: the serialization is the version text, a space, the status text,
\* CRLF, one "name: value" CRLF line per header in insertion order, an empty
\* CRLF line, then the content; a new HTTP/1.1 response serializes to
\* "HTTP/1.1 200 OK\r\n\r\n".
C14_Serialization ==
    pc = "serialized"
        => /\ IsSerializationOf(written, response)
           /\ (IsFresh(response) /\ response.status_line.version = "Http1_1")
                  => written = <<"H", "T", "T", "P", "/", "1", ".", "1", " ",
                                 "2", "0", "0", " ", "O", "K", "\r", "\n", "\r", "\n">>

\* a response with two different headers and a content has been serialized
C14_Witness ==
    /\ pc = "serialized"
    /\ Len(response.headers) = 2
    /\ response.headers[1] # response.headers[2]
    /\ response.content # Empty
    /\ response.status_line.status = "NotFound"

\* a new HTTP/1.1 response has been serialized
C14_FreshSerialized ==
    /\ pc = "serialized"
    /\ IsFresh(response)
    /\ response.status_line.version = "Http1_1"

----------------------------------------------------------------------------
(* Claims about HttpRequest::from_stream as a whole and about the          *)
(* connection handler.                                                     *)

\* from_stream is at work
Parsing == pc \in {"request_line", "first_header", "headers"}

\* C11: from_stream hands over a request only when it has succeeded, with a
\* supported method and version and with the headers of every line it read
\* up to the blank line that ended the block; when it fails, by Err or by
\* panic, at whatever line, no request is handed over.
C11_RequestAllOrNothing ==
    /\ returned # NoRequest
          => /\ ~Parsing
             /\ pc # "failed"
             /\ error = NoError
             /\ returned.request_line.method
                    \in {MethodNamed(m) : m \in SupportedMethods(build)}
             /\ returned.request_line.version
                    \in {VersionNamed(v) : v \in SupportedVersions}
             /\ returned.request_line = request_line
             /\ returned.headers = headers
             /\ returned.body = "None"
             /\ ConsumedHeaderLines # <<>>
             /\ IsBlank(ConsumedHeaderLines[Len(ConsumedHeaderLines)])
             /\ Len(returned.headers) = Len(SelectSeq(ConsumedHeaderLines, IsNotBlank))
    /\ (Parsing \/ pc = "failed" \/ error # NoError
          \/ (pc \in {"panicked", "unwound"} /\ routed = 0))
          => returned = NoRequest

\* from_stream has failed after it had pushed a header
C11_Witness ==
    /\ pc = "failed"
    /\ Len(headers) >= 1
    /\ error = NoSequenceFound
    /\ returned = NoRequest

\* from_stream has returned a request with two headers
C11_Returned ==
    /\ pc = "parsed"
    /\ Len(returned.headers) = 2

\* the target of the request that from_stream returned
Target == returned.request_line.target

\* handle_request has returned the response
Routed == pc \in {"routed", "written", "closed"}

\* C15: for a parsed request whose target is "/echo/" followed by X, the
\* response is 200 OK with the version of the request, its headers are
\* exactly Content-Type: text/plain and Content-Length: the byte length of
\* X, and its content is X, the target without its first "/echo/".
C15_EchoesTheRest ==
    (Routed /\ StartsWith(Target, <<"/", "e", "c", "h", "o", "/">>))
        => LET X == Drop(Target, 6)
           IN  /\ response.status_line = [version |-> returned.request_line.version,
                                          status |-> "Ok"]
               /\ Len(response.headers) = 2
               /\ response.headers[1] = <<CONTENT_TYPE, TEXT_PLAIN>>
               /\ response.headers[2][1] = CONTENT_LENGTH
               /\ IsDecimalOf(response.headers[2][2], Len(X))
               /\ response.content = X

\* the target is none that handle_request knows
Unregistered(target) ==
    /\ target # <<"/">>
    /\ target # <<"/", "u", "s", "e", "r", "-", "a", "g", "e", "n", "t">>
    /\ ~StartsWith(target, <<"/", "e", "c", "h", "o", "/">>)

\* C16: for a parsed request whose target is not "/", not "/user-agent" and
\* does not begin with "/echo/", the response has the status line
\* "<version of the request> 404 Not Found", no headers and an empty content,
\* and what is written is that status line, CRLF and an empty line.
C16_UnregisteredIs404 ==
    (returned # NoRequest /\ Unregistered(Target))
        => /\ Routed
              => /\ response.status_line = [version |-> returned.request_line.version,
                                            status |-> "NotFound"]
                 /\ response.headers = <<>>
                 /\ response.content = Empty
           /\ pc \in {"written", "closed"}
              => written = VersionText(returned.request_line.version)
                              \o <<" ", "4", "0", "4", " ", "N", "o", "t", " ",
                                   "F", "o", "u", "n", "d", "\r", "\n", "\r", "\n">>

\* the response to a request for "/a" has been written
C16_Witness ==
    /\ pc = "written"
    /\ Target = <<"/", "a">>
    /\ written # <<>>

\* C17: on a connection the events come in the order parse, route, write,
\* close: one request at most is parsed, handle_request is called once, and
\* only with a request that from_stream returned, the response is written
\* once handle_request has returned, the connection is closed after the
\* write, and nothing is read once from_stream is over.
C17_ParseRouteWriteClose ==
    /\ [](/\ routed \in {0, 1}
          /\ routed = 1 => returned # NoRequest
          /\ pc \in {"unwrapped"} => routed = 0 /\ written = <<>>
          /\ pc = "routed" => routed = 1 /\ written = <<>>
          /\ pc \in {"written", "closed"} => routed = 1 /\ written # <<>>)
    /\ [][/\ routed' # routed => pc = "unwrapped" /\ returned # NoRequest
          /\ written' # written => pc = "routed" /\ pc' = "written"
          /\ (pc' = "closed" /\ pc # "closed") => pc = "written"
          /\ returned # NoRequest => returned' = returned
          /\ ~Parsing => ~Parsing' /\ pos' = pos
          /\ pc \in {"closed", "unwound"}
                => pc' = pc /\ written' = written /\ routed' = routed]_vars

\* a connection has gone through parse, route, write and close
C17_Witness ==
    /\ pc = "closed"
    /\ routed = 1
    /\ returned # NoRequest
    /\ written # <<>>

\* C18: when parsing the request fails, by an Err (a malformed line, the end
\* of the stream, a failed read) or by a panic, the handler writes no byte
\* and handle_request is not called.
C18_NothingAfterParseFailure ==
    (returned = NoRequest /\ ~Parsing)
        => /\ written = <<>>
           /\ routed = 0
           /\ response = NoResponse
           /\ pc \in {"failed", "panicked", "unwound"}

\* the stream ended after a header, from_stream returned the Err, and the
\* thread of the connection has ended
C18_Witness ==
    /\ error = NoSequenceFound
    /\ Len(headers) >= 1
    /\ pc = "unwound"
    /\ returned = NoRequest

\* from_stream failed on a read of a broken connection
C18_ReadFailed ==
    /\ error = ConnectionReset
    /\ pc = "unwound"

\* a step of the handler of the connection
HandlerStep ==
    \/ ParseRequestLine
    \/ ParseFirstHeader
    \/ ParseNextHeader
    \/ ReadFails
    \/ Expect
    \/ Route
    \/ Write
    \/ WriteFails
    \/ Close
    \/ Unwind

\* the peer has sent a request line of supported words and an empty line,
\* nothing more, and keeps the connection open
SentRequestAndEmptyLine ==
    /\ ~closed
    /\ ~reset
    /\ \E m \in SupportedMethods(build), t \in Targets, v \in SupportedVersions :
           stream = JoinWords(<<m, t, v>>) \o CRLF \o CRLF

\* C20: once the peer has sent a complete request line and an empty line,
\* and sends nothing more while it keeps the connection open, the handler
\* runs to its end and writes the response: until then it has a step to
\* take, it never waits for a byte that does not come.
C20_CompletesAfterEmptyLine ==
    (build = "main" /\ SentRequestAndEmptyLine)
        => \/ pc = "closed" /\ written # <<>>
           \/ pc \notin {"failed", "panicked", "unwound"} /\ ENABLED HandlerStep

----------------------------------------------------------------------------
(* Claims about the server and its threads.                                *)

\* the bytes are a request of the wire format: a request line of three
\* words with a supported method and version, header lines "name: value",
\* an empty line, and nothing after it
WellFormed(bytes) ==
    LET lines == WireLines(bytes)
        words == slice_split(lines[1], SP)
    IN  /\ Len(lines) >= 2
        /\ WireLength(lines) = Len(bytes)
        /\ Len(words) = 3
        /\ words[1] \in SupportedMethods("main")
        /\ words[3] \in SupportedVersions
        /\ lines[Len(lines)] = Empty
        /\ \A i \in 2..(Len(lines) - 1) :
               IsNotBlank(lines[i]) /\ FirstOccurrence(lines[i], COLON_SP, 0) > 1

\* the thread of connection c has ended by a failure
Aborted(c) == conns[c].at \in {"panicked", "unwound"}

\* the thread of connection c waits for bytes that its peer, which has sent
\* its request and keeps the connection open, does not send
Stuck(c) ==
    /\ conns[c].at = "spawned"
    /\ HttpRequest_from_stream(build, conns[c].stream, conns[c].closed).kind = "Blocked"

\* the response handle_connection makes for the request that c holds
ResponseFor(c) ==
    HttpResponse_to_string(
        handle_request(conns[c].request,
                       HttpResponse_new(conns[c].request.request_line.version)).response)

\* C19: when the handler of one connection has failed, by an Err or by a
\* panic, the accept loop still takes the connections that wait, and every
\* other connection whose request is well formed gets its complete response:
\* its thread is not aborted, does not wait for ever, and once it is over the
\* whole response has been written.
C19_OtherConnectionsServed ==
    \A c \in Conns :
        ((\E d \in Conns \ {c} : Aborted(d)) /\ WellFormed(conns[c].stream))
            => /\ conns[c].at = "waiting" => ENABLED Accept
               /\ ~Aborted(c)
               /\ ~Stuck(c)
               /\ conns[c].at \in {"written", "closed"} => conns[c].written = ResponseFor(c)

\* what the thread of a connection makes of its stream does not depend on
\* the other connections: a thread is aborted only by its own request
ThreadsAreIsolated ==
    \A c \in Conns :
        LET r == HttpRequest_from_stream(build, conns[c].stream, conns[c].closed)
        IN  /\ Aborted(c) => r.kind \in {"failed", "panicked"}
            /\ conns[c].at \in {"unwrapped", "routed", "written", "closed"}
                  => r.kind = "parsed" /\ conns[c].request = r.request
            /\ conns[c].at \in {"written", "closed"} => conns[c].written = ResponseFor(c)

\* from_stream taken in one step agrees with from_stream taken line by line
RunAgreesWithSteps ==
    /\ pc = "parsed"
          => HttpRequest_from_stream(build, stream, closed)
                 = [kind |-> "parsed", request |-> returned]
    /\ (pc = "failed" /\ error # ConnectionReset /\ routed = 0)
          => HttpRequest_from_stream(build, stream, TRUE).kind = "failed"

====
